---- MODULE Spec2Model ----
(***************************************************************************)
(* Trust-aware forwarding node (src/Final_proj/Mal_node.c): the neighbor   *)
(* table, the trust merge of received gossip vectors, the rapid-forward    *)
(* penalty, the block threshold and the per-entry expiry timer.            *)
(*                                                                         *)
(* The node is single-threaded and cooperative: every handler runs to      *)
(* completion, so each handler is one atomic action.  Handlers are written *)
(* as operators from the table (and the handler's inputs) to the table     *)
(* after the handler, its return value and its log line; the actions apply *)
(* them to the state.                                                      *)
(***************************************************************************)
EXTENDS Integers, Sequences, FiniteSets, TLC

VARIABLES
    table,    \* neighbor_table: the list of struct neighbor, in list order
    now,      \* clock_seconds()
    last,     \* what the last handler was called with, returned, logged and sent
    nev,      \* number of radio events delivered so far (bounds a run)
    tableB,   \* neighbor_table of a second node running the same program
    rounds    \* completed gossip rounds between the two nodes

vars == <<table, now, last, nev, tableB, rounds>>

-----------------------------------------------------------------------------
(* Program constants *)

MAX_NEIGHBORS == 16
MAT == 50
MINIMUM_DELAY == 5
\* NEIGHBOR_TIMEOUT is 10 * CLOCK_SECOND clock ticks; the model counts seconds
NEIGHBOR_TIMEOUT == 10
\* the trust of a freshly inserted neighbor and of the pinned sink
FULL_TRUST == 100

sink_addr == <<1, 0>>
\* the address of the node the model observes
linkaddr_node_addr == <<2, 0>>

\* a NULL next hop
NULL == <<>>
\* a ctimer that is not pending (never armed, or fired and not set again)
IDLE == -1

-----------------------------------------------------------------------------
(* Bounds of the model *)

\* time stops advancing here
MaxTime == 10
\* radio events (broadcasts, forwards, unicasts, gossip ticks) per run
MaxEvents == 3
\* random_rand() draws from 0..MaxRand
MaxRand == 1

\* forwards from the one neighbor of the rapid-forward run
MaxForwards == 53
\* the clock advances by one of these between two of its forwards
RapidDelays == {1, 2}

\* the clock advances by one of these between two events
Delays == {4, 5}
\* addresses heard on the radio
Senders == {sink_addr, <<3, 0>>, <<4, 0>>}

Rec(a, v) == [addr |-> a, trust |-> v]

\* payloads of received broadcasts: the all-zero vector, a low opinion of
\* <<3, 0>> stated twice, a low opinion of the sink, and a trust outside
\* [0,100]
GossipSamples ==
    { <<>>,
      <<Rec(<<3, 0>>, 20), Rec(<<3, 0>>, 20)>>,
      <<Rec(sink_addr, 20)>>,
      <<Rec(<<3, 0>>, 300)>> }

\* records of a received vector that are not zero padding, where every
\* vector over a record set is tried
MaxVecLen == 2
\* trust values of those records: the sentinel, a low value and a value
\* outside [0,100]
MergeTrusts == {0, 20, 300}
\* trust values of the tables a merge is tried on: negative and odd, zero
\* (both blocked), odd and not blocked, fresh
SeedTrusts == {-35, 0, 61, 100}
\* trust values of the sink entry in those tables: pinned, and penalised
\* once by forward
SeedSinkTrusts == {100, 99}
\* the addresses of those tables, in list order
SeedOrders ==
    { <<<<3, 0>>>>,
      <<<<3, 0>>, <<4, 0>>>>,
      <<sink_addr, <<3, 0>>>>,
      <<<<4, 0>>, sink_addr, <<3, 0>>>> }

\* gossip rounds two nodes exchange
ConvRounds == 7
\* the second node, and the neighbor the two nodes have in common
peer_addr == <<5, 0>>
common_addr == <<3, 0>>

-----------------------------------------------------------------------------
(* Helpers *)

\* C integer division of a by b > 0: truncation toward zero
CDiv(a, b) == IF a >= 0 THEN a \div b ELSE -((-a) \div b)

\* a zeroed struct neighbor_trust
ZeroRec == [addr |-> <<0, 0>>, trust |-> 0]

\* packetbuf_copyto(nt) into the zeroed nt[MAX_NEIGHBORS]: the payload followed
\* by the zero records the copy leaves untouched
packetbuf_copyto(pkt) ==
    [i \in 1..MAX_NEIGHBORS |-> IF i <= Len(pkt) THEN pkt[i] ELSE ZeroRec]

\* index of the first entry with address a, 0 when there is none
find(t, a) ==
    IF \E k \in 1..Len(t) : t[k].addr = a
    THEN CHOOSE k \in 1..Len(t) :
            /\ t[k].addr = a
            /\ \A j \in 1..(k - 1) : t[j].addr # a
    ELSE 0

\* ctimer_set(&n->ctimer, NEIGHBOR_TIMEOUT, remove_neighbor, n) at time clk
ctimer_set(clk) == clk + NEIGHBOR_TIMEOUT

\* memb_alloc of a pool that never runs out
memb_alloc_unbounded(t) == TRUE

\* memb_alloc(&neighbor_mem): a block is free iff fewer than MAX_NEIGHBORS
\* are in use; no block is ever given back, so the blocks in use are the
\* table's entries
memb_alloc(t) == Len(t) < MAX_NEIGHBORS

\* the penalty with the product kept in extended precision: the double
\* nearest 0.99 is below 0.99, so an exact x*99/100 is missed by one
penalty_extended(x) ==
    IF (x * 99) % 100 = 0 THEN (x * 99) \div 100 - 1 ELSE (x * 99) \div 100

\* n->trust *= 0.99 for an int trust > 49: the product in double, converted
\* back to int by truncation.  The double nearest 0.99 is below 0.99 by a
\* relative 9e-18, less than half an ulp, so the product rounds to the exact
\* x*99/100 when that is an integer and truncates to its floor otherwise
\* (the same holds in 32-bit float; only a product kept in x87 extended
\* precision would turn 100 into 98).
penalty(x) == (x * 99) \div 100

-----------------------------------------------------------------------------
(* addr_is_blocked *)

addr_is_blocked(t, a) ==
    \E k \in 1..Len(t) : t[k].addr = a /\ t[k].trust < MAT

-----------------------------------------------------------------------------
(* update_table *)

\* merge_record without the address comparison: the record is averaged into
\* every entry
merge_record_any(t, r) ==
    [k \in 1..Len(t) |->
        LET e  == t[k]
            e1 == IF r.trust # e.trust
                  THEN [e EXCEPT !.trust = CDiv(e.trust + r.trust, 2)]
                  ELSE e
        IN  IF e1.addr = sink_addr
            THEN [e1 EXCEPT !.trust = FULL_TRUST]
            ELSE e1]

\* the inner loop of update_table for one record r: every entry with r's
\* address and another trust is averaged, and the sink entry is set to 100
merge_record(t, r) ==
    [k \in 1..Len(t) |->
        LET e  == t[k]
            e1 == IF r.addr = e.addr /\ r.trust # e.trust
                  THEN [e EXCEPT !.trust = CDiv(e.trust + r.trust, 2)]
                  ELSE e
        IN  IF e1.addr = sink_addr
            THEN [e1 EXCEPT !.trust = FULL_TRUST]
            ELSE e1]

\* update_loop without the stop at trust 0: every record is merged
RECURSIVE update_loop_nobreak(_, _, _)
update_loop_nobreak(t, nt, i) ==
    IF i > MAX_NEIGHBORS THEN t
    ELSE update_loop_nobreak(merge_record(t, nt[i]), nt, i + 1)

\* the outer loop from record i on: stops at the first record with trust 0
RECURSIVE update_loop(_, _, _)
\* update_loop skipping a record with trust 0 (continue for break)
update_loop_skip(t, nt, i) ==
    IF i > MAX_NEIGHBORS THEN t
    ELSE IF nt[i].trust = 0 THEN update_loop(t, nt, i + 1)
    ELSE update_loop(merge_record(t, nt[i]), nt, i + 1)


update_loop(t, nt, i) ==
    IF i > MAX_NEIGHBORS THEN t
    ELSE IF nt[i].trust = 0 THEN t
    ELSE update_loop(merge_record(t, nt[i]), nt, i + 1)

update_table(t, nt) == update_loop(t, nt, 1)

-----------------------------------------------------------------------------
(* broadcast_recv *)

\* the entry broadcast_recv adds for an unknown sender
new_neighbor(from, clk) ==
    [addr |-> from, trust |-> FULL_TRUST, last_received |-> clk,
     ctimer |-> ctimer_set(clk)]

\* the table after memb_alloc and list_add for an unknown sender
insert(t, from, clk) ==
    IF memb_alloc(t) THEN Append(t, new_neighbor(from, clk)) ELSE t

\* the trust reported for an address that has no entry
NoEntry == -2

trust_of(t, a) == IF find(t, a) = 0 THEN NoEntry ELSE t[find(t, a)].trust

\* broadcast_recv without the trust test on a known sender
broadcast_recv_unchecked(t, from, pkt, clk) ==
    LET t1 == IF find(t, from) # 0 THEN t ELSE insert(t, from, clk)
    IN  [table |-> update_table(t1, packetbuf_copyto(pkt)),
         merged |-> TRUE, peer |-> trust_of(t1, from)]

\* broadcast_recv that also learns a neighbor from the vector: the address of
\* the first record is added when it is unknown and the record's trust is
\* not 0
broadcast_recv_learning(t, from, pkt, clk) ==
    LET k  == find(t, from)
        t1 == IF k # 0 THEN t ELSE insert(t, from, clk)
        t2 == IF pkt # <<>> /\ pkt[1].trust # 0 /\ find(t1, pkt[1].addr) = 0
              THEN insert(t1, pkt[1].addr, clk)
              ELSE t1
    IN  IF k # 0 /\ t[k].trust < 50
        THEN [table |-> t, merged |-> FALSE, peer |-> t[k].trust]
        ELSE [table |-> update_table(t2, packetbuf_copyto(pkt)),
              merged |-> TRUE, peer |-> trust_of(t1, from)]

\* broadcast_recv without the return after the merge for a known sender: the
\* handler falls through to memb_alloc and adds the sender again
broadcast_recv_fallthrough(t, from, pkt, clk) ==
    LET k  == find(t, from)
        t1 == IF k # 0 THEN update_table(t, packetbuf_copyto(pkt)) ELSE t
    IN  IF k # 0 /\ t[k].trust < 50
        THEN [table |-> t, merged |-> FALSE, peer |-> t[k].trust]
        ELSE [table |-> update_table(insert(t1, from, clk),
                                     packetbuf_copyto(pkt)),
              merged |-> TRUE,
              peer |-> IF k # 0 THEN t[k].trust ELSE FULL_TRUST]

\* result: the table, whether update_table was called, and the trust of the
\* sender's entry at the moment of the call (or of the refusal)
broadcast_recv(t, from, pkt, clk) ==
    LET k == find(t, from)
    IN  IF k # 0
        THEN IF t[k].trust < 50
             THEN [table |-> t, merged |-> FALSE, peer |-> t[k].trust]
             ELSE [table |-> update_table(t, packetbuf_copyto(pkt)),
                   merged |-> TRUE, peer |-> t[k].trust]
        ELSE LET t1 == insert(t, from, clk)
             IN  [table |-> update_table(t1, packetbuf_copyto(pkt)),
                  merged |-> TRUE, peer |-> trust_of(t1, from)]

-----------------------------------------------------------------------------
(* forward *)

\* touch_prevhop with the delay test off by one (<= for <)
touch_prevhop_inclusive(t, prevhop, clk) ==
    [k \in 1..Len(t) |->
        IF t[k].addr = prevhop
        THEN [t[k] EXCEPT
                !.ctimer = ctimer_set(clk),
                !.trust = IF clk - t[k].last_received <= MINIMUM_DELAY
                             /\ t[k].trust > 49
                          THEN penalty(t[k].trust)
                          ELSE t[k].trust,
                !.last_received = clk]
        ELSE t[k]]

\* touch_prevhop without the address comparison: every entry is touched
touch_prevhop_all(t, prevhop, clk) ==
    [k \in 1..Len(t) |->
        [t[k] EXCEPT
            !.ctimer = ctimer_set(clk),
            !.trust = IF clk - t[k].last_received < MINIMUM_DELAY
                         /\ t[k].trust > 49
                      THEN penalty(t[k].trust)
                      ELSE t[k].trust,
            !.last_received = clk]]

\* the loop over the table for the previous hop: rearm, penalty, timestamp
touch_prevhop(t, prevhop, clk) ==
    [k \in 1..Len(t) |->
        IF t[k].addr = prevhop
        THEN [t[k] EXCEPT
                !.ctimer = ctimer_set(clk),
                !.trust = IF clk - t[k].last_received < MINIMUM_DELAY
                             /\ t[k].trust > 49
                          THEN penalty(t[k].trust)
                          ELSE t[k].trust,
                !.last_received = clk]
        ELSE t[k]]

\* the next hop forward picks: entry number rnd % length of the list
pick(t, rnd) ==
    IF Len(t) > 0
    THEN [table |-> t, ret |-> t[(rnd % Len(t)) + 1].addr, log |-> "forwarding"]
    ELSE [table |-> t, ret |-> NULL, log |-> "none"]

\* forward without the block test on the previous hop
forward_unchecked(t, prevhop, clk, rnd) ==
    pick(touch_prevhop(t, prevhop, clk), rnd)

\* rnd is the value of random_rand()
forward(t, prevhop, clk, rnd) ==
    IF prevhop # linkaddr_node_addr /\ addr_is_blocked(t, prevhop)
    THEN [table |-> t, ret |-> NULL, log |-> "dropped"]
    ELSE pick(touch_prevhop(t, prevhop, clk), rnd)

-----------------------------------------------------------------------------
(* recv *)

\* recv without the block test on the sender
recv_unchecked(t, sender, clk) ==
    [table |-> [k \in 1..Len(t) |->
                    IF t[k].addr = sender
                    THEN [t[k] EXCEPT !.ctimer = ctimer_set(clk)]
                    ELSE t[k]],
     log |-> "received"]

recv(t, sender, clk) ==
    IF addr_is_blocked(t, sender)
    THEN [table |-> t, log |-> "ignored"]
    ELSE [table |-> [k \in 1..Len(t) |->
                        IF t[k].addr = sender
                        THEN [t[k] EXCEPT !.ctimer = ctimer_set(clk)]
                        ELSE t[k]],
          log |-> "received"]

-----------------------------------------------------------------------------
(* remove_neighbor: the ctimer callback of entry k *)

\* remove_neighbor that frees the entry whose trust is below MAT
\* (list_remove and memb_free)
remove_neighbor_freeing(t, k, clk) ==
    IF t[k].addr = sink_addr
    THEN [table |-> [t EXCEPT ![k].ctimer = IDLE], log |-> ""]
    ELSE IF t[k].trust >= MAT
    THEN [table |-> [t EXCEPT ![k].ctimer = ctimer_set(clk)], log |-> ""]
    ELSE [table |-> SubSeq(t, 1, k - 1) \o SubSeq(t, k + 1, Len(t)),
          log |-> "fell below 50"]

remove_neighbor(t, k, clk) ==
    IF t[k].addr = sink_addr
    THEN [table |-> [t EXCEPT ![k].ctimer = IDLE], log |-> ""]
    ELSE IF t[k].trust >= MAT
    THEN [table |-> [t EXCEPT ![k].ctimer = ctimer_set(clk)], log |-> ""]
    ELSE [table |-> [t EXCEPT ![k].ctimer = IDLE], log |-> "fell below 50"]

-----------------------------------------------------------------------------
(* broadcast_process: the vector one gossip tick builds and sends *)

\* snapshot that sends the filled records only, without the zero padding
snapshot_unpadded(t) ==
    [i \in 1..Len(t) |-> [addr |-> t[i].addr, trust |-> t[i].trust]]

snapshot(t) ==
    [i \in 1..MAX_NEIGHBORS |->
        IF i <= Len(t) THEN [addr |-> t[i].addr, trust |-> t[i].trust]
        ELSE ZeroRec]

-----------------------------------------------------------------------------
(* The node under observation *)

\* the record of one handler call: its name, the address it was called with,
\* the next hop it returned, its log line, the payload it sent, and for
\* broadcast_recv the payload received and the sender's trust when the
\* vector was merged or refused
Event(op, addr, ret, log, out, pkt, peer) ==
    [op |-> op, addr |-> addr, ret |-> ret, log |-> log, out |-> out,
     pkt |-> pkt, peer |-> peer]

Init ==
    /\ table = <<>>
    /\ now = 0
    /\ last = Event("init", NULL, NULL, "", <<>>, <<>>, NoEntry)
    /\ nev = 0
    /\ tableB = <<>>
    /\ rounds = 0

\* a broadcast from `from` carrying the payload pkt is received
BroadcastRecvOf(F, P) ==
    \E from \in F, pkt \in P :
        LET r == broadcast_recv(table, from, pkt, now)
        IN  /\ table' = r.table
            /\ last' = Event("broadcast_recv", from, NULL,
                             IF r.merged THEN "merged" ELSE "refused", <<>>,
                             pkt, r.peer)
            /\ nev' = nev + 1
            /\ UNCHANGED <<now, tableB, rounds>>

BroadcastRecv ==
    /\ nev < MaxEvents
    /\ BroadcastRecvOf(Senders, GossipSamples)

\* the multihop layer asks for the next hop of a packet that came from prevhop
ForwardOf(P) ==
    \E prevhop \in P, rnd \in 0..MaxRand :
        LET r == forward(table, prevhop, now, rnd)
        IN  /\ table' = r.table
            /\ last' = Event("forward", prevhop, r.ret, r.log, <<>>, <<>>, NoEntry)
            /\ nev' = nev + 1
            /\ UNCHANGED <<now, tableB, rounds>>

Forward ==
    /\ nev < MaxEvents
    /\ ForwardOf(Senders \cup {linkaddr_node_addr})

\* a multihop packet addressed to this node arrives
RecvOf(S) ==
    \E sender \in S :
        LET r == recv(table, sender, now)
        IN  /\ table' = r.table
            /\ last' = Event("recv", sender, NULL, r.log, <<>>, <<>>, NoEntry)
            /\ nev' = nev + 1
            /\ UNCHANGED <<now, tableB, rounds>>

Recv ==
    /\ nev < MaxEvents
    /\ RecvOf(Senders)

\* the gossip timer of broadcast_process fires
GossipTick ==
    /\ nev < MaxEvents
    /\ last' = Event("gossip", NULL, NULL, "", snapshot(table), <<>>, NoEntry)
    /\ nev' = nev + 1
    /\ UNCHANGED <<table, now, tableB, rounds>>

\* the ctimer of entry k expires
Expire ==
    \E k \in 1..Len(table) :
        LET r == remove_neighbor(table, k, now)
        IN  /\ table[k].ctimer # IDLE
            /\ now >= table[k].ctimer
            /\ table' = r.table
            /\ last' = Event("remove_neighbor", table[k].addr, NULL, r.log,
                             <<>>, <<>>, NoEntry)
            /\ UNCHANGED <<now, nev, tableB, rounds>>

\* time passes; a ctimer that is due fires before the clock moves on
Tick ==
    \E d \in Delays :
        /\ now + d <= MaxTime
        /\ \A k \in 1..Len(table) :
              table[k].ctimer = IDLE \/ now < table[k].ctimer
        /\ now' = now + d
        /\ last' = Event("tick", NULL, NULL, "", <<>>, <<>>, NoEntry)
        /\ UNCHANGED <<table, nev, tableB, rounds>>

Next ==
    \/ BroadcastRecv
    \/ Forward
    \/ Recv
    \/ GossipTick
    \/ Expire
    \/ Tick

Spec == Init /\ [][Next]_vars

-----------------------------------------------------------------------------
(* The node with one free block left in neighbor_mem: MAX_NEIGHBORS - 1
   neighbors were heard at time 0, none of them in Senders, and the radio
   events that follow within the same second *)

crowd_addr(k) == <<k + 20, 0>>

InitPool ==
    /\ table = [k \in 1..(MAX_NEIGHBORS - 1) |-> new_neighbor(crowd_addr(k), 0)]
    /\ now = 0
    /\ last = Event("init", NULL, NULL, "", <<>>, <<>>, NoEntry)
    /\ nev = 0
    /\ tableB = <<>>
    /\ rounds = 0

NextPool ==
    \/ BroadcastRecv
    \/ Forward
    \/ Recv
    \/ GossipTick

SpecPool == InitPool /\ [][NextPool]_vars

-----------------------------------------------------------------------------
(* The node among neighbors whose vectors carry trust values within [0,100]
   only *)

\* payloads of received broadcasts: the all-zero vector, a full vector of
\* the lowest opinion of <<3, 0>>, the highest opinion of <<3, 0>>, and a
\* low opinion of <<4, 0>> followed by a record of trust 0 naming <<3, 0>>
InRangeSamples ==
    { <<>>,
      [i \in 1..MAX_NEIGHBORS |-> Rec(<<3, 0>>, 1)],
      <<Rec(<<3, 0>>, 100)>>,
      <<Rec(<<4, 0>>, 1), Rec(<<3, 0>>, 0)>> }

BroadcastRecvInRange ==
    /\ nev < MaxEvents
    /\ BroadcastRecvOf(Senders, InRangeSamples)

NextInRange ==
    \/ BroadcastRecvInRange
    \/ Forward
    \/ Recv
    \/ GossipTick
    \/ Expire
    \/ Tick

SpecInRange == Init /\ [][NextInRange]_vars

-----------------------------------------------------------------------------
(* One neighbor forwarding in a hurry: <<3, 0>> is discovered by a broadcast
   with an all-zero vector, no other broadcast is heard, and every forward
   has <<3, 0>> as previous hop and comes less than MINIMUM_DELAY after the
   one before it (the first one after the discovery) *)

rapid_addr == <<3, 0>>

Discover ==
    /\ nev = 0
    /\ BroadcastRecvOf({rapid_addr}, {<<>>})

ForwardRapid ==
    /\ nev >= 1
    /\ nev < MaxForwards + 1
    /\ ForwardOf({rapid_addr})

TickRapid ==
    \E d \in RapidDelays :
        /\ IF table = <<>>
           THEN now + d <= MaxTime
           ELSE now + d - table[1].last_received < MINIMUM_DELAY
        /\ \A k \in 1..Len(table) :
              table[k].ctimer = IDLE \/ now < table[k].ctimer
        /\ now' = now + d
        /\ last' = Event("tick", NULL, NULL, "", <<>>, <<>>, NoEntry)
        /\ UNCHANGED <<table, nev, tableB, rounds>>

NextRapid == Discover \/ ForwardRapid \/ TickRapid

SpecRapid == Init /\ [][NextRapid]_vars

-----------------------------------------------------------------------------
(* The merge on its own: one broadcast received by a table that earlier
   events have left with arbitrary trust values *)

\* every payload of at most n records over the record set R
Payloads(R, n) == UNION {[1..k -> R] : k \in 0..n}

MergePayloads ==
    Payloads({Rec(a, v) : a \in Senders, v \in MergeTrusts}, MaxVecLen)

\* tables of neighbors all heard at time 0 whose trust gossip has since moved
SeedTables ==
    UNION { { [k \in 1..Len(o) |->
                 [new_neighbor(o[k], 0) EXCEPT !.trust = f[k]]] :
              f \in { g \in [1..Len(o) -> SeedTrusts \cup SeedSinkTrusts] :
                        \A k \in 1..Len(o) :
                           IF o[k] = sink_addr
                           THEN g[k] \in SeedSinkTrusts
                           ELSE g[k] \in SeedTrusts } } :
            o \in SeedOrders }

InitMerge ==
    /\ table \in SeedTables
    /\ now = 0
    /\ last = Event("init", NULL, NULL, "", <<>>, <<>>, NoEntry)
    /\ nev = 0
    /\ tableB = <<>>
    /\ rounds = 0

\* a broadcast with any payload
MergeStep ==
    /\ nev = 0
    /\ BroadcastRecvOf(Senders, MergePayloads)

\* a broadcast whose payload is this node's own gossip vector
EchoStep ==
    /\ nev <= 1
    /\ BroadcastRecvOf(Senders, {snapshot(table)})

NextMerge == MergeStep \/ EchoStep

SpecMerge == InitMerge /\ [][NextMerge]_vars

-----------------------------------------------------------------------------
(* Two nodes gossiping: this node and a second one run the same program,
   each holds the other as a neighbor, and nothing happens but their gossip
   ticks and the delivery of the vectors *)

\* a table of neighbors heard at time 0: the addresses o with the trusts f
Table(o, f) ==
    [k \in 1..Len(o) |-> [new_neighbor(o[k], 0) EXCEPT !.trust = f[k]]]

InitConv ==
    /\ \E x \in 1..FULL_TRUST, s \in SeedSinkTrusts :
          table = Table(<<peer_addr, common_addr, sink_addr>>,
                        <<FULL_TRUST, x, s>>)
    /\ \E y \in 1..FULL_TRUST :
          tableB = Table(<<sink_addr, common_addr, linkaddr_node_addr>>,
                         <<FULL_TRUST, y, MAT>>)
    /\ now = 0
    /\ last = Event("init", NULL, NULL, "", <<>>, <<>>, NoEntry)
    /\ nev = 0
    /\ rounds = 0

\* a round is over once both vectors have been delivered
Delivered(op) ==
    /\ rounds < ConvRounds
    /\ nev = 0 \/ last.op # op
    /\ nev' = IF nev = 0 THEN 1 ELSE 0
    /\ rounds' = IF nev = 0 THEN rounds ELSE rounds + 1
    /\ last' = Event(op, NULL, NULL, "", <<>>, <<>>, NoEntry)
    /\ UNCHANGED now

\* this node's gossip tick, and broadcast_recv of its vector at the peer
GossipToPeer ==
    /\ Delivered("to_peer")
    /\ tableB' = broadcast_recv(tableB, linkaddr_node_addr,
                                snapshot(table), now).table
    /\ UNCHANGED table

\* the peer's gossip tick, and broadcast_recv of its vector at this node
GossipFromPeer ==
    /\ Delivered("from_peer")
    /\ table' = broadcast_recv(table, peer_addr, snapshot(tableB), now).table
    /\ UNCHANGED tableB

\* both gossip ticks fire before either vector is delivered
GossipCrossed ==
    /\ rounds < ConvRounds
    /\ nev = 0
    /\ tableB' = broadcast_recv(tableB, linkaddr_node_addr,
                                snapshot(table), now).table
    /\ table' = broadcast_recv(table, peer_addr, snapshot(tableB), now).table
    /\ rounds' = rounds + 1
    /\ last' = Event("crossed", NULL, NULL, "", <<>>, <<>>, NoEntry)
    /\ UNCHANGED <<now, nev>>

NextConv == GossipToPeer \/ GossipFromPeer \/ GossipCrossed

SpecConv == InitConv /\ [][NextConv]_vars

-----------------------------------------------------------------------------
(* Properties of the node under observation *)

\* the entry of address a (the first one, as every scan of the list finds it)
entry(t, a) == t[find(t, a)]
known(t, a) == find(t, a) # 0

\* C1: every entry's trust is within [0,100], whatever vectors were received.
TrustInRange ==
    \A k \in 1..Len(table) : 0 <= table[k].trust /\ table[k].trust <= 100

\* C2: a sink entry has trust 100 after every handler, so the sink is never
\* blocked.
SinkPinned ==
    /\ \A k \in 1..Len(table) :
          table[k].addr = sink_addr => table[k].trust = 100
    /\ ~addr_is_blocked(table, sink_addr)

\* C3: a next hop returned by forward is the address of an entry that is not
\* blocked when forward returns.
NextHopNotBlocked ==
    (last.op = "forward" /\ last.ret # NULL) =>
        /\ known(table, last.ret)
        /\ ~addr_is_blocked(table, last.ret)

\* C5: a broadcast from a sender whose entry is blocked changes nothing in
\* the table: no trust, timestamp, timer or membership.
BlockedGossipRefused ==
    [][(last'.op = "broadcast_recv" /\ addr_is_blocked(table, last'.addr))
        => (table' = table /\ last'.log = "refused")]_vars

\* a blocked sender's broadcast was refused while another neighbor that is
\* not the sink is in the table
BlockedGossipWitness ==
    /\ last.op = "broadcast_recv"
    /\ last.log = "refused"
    /\ addr_is_blocked(table, last.addr)
    /\ \E k \in 1..Len(table) :
          table[k].addr \notin {last.addr, sink_addr}

\* C6: a forward whose previous hop is another node and is blocked returns
\* no next hop and changes nothing in the table; a forward whose previous
\* hop is this node is never dropped by the block check.
BlockedPrevhopDropped ==
    [][last'.op = "forward" =>
        /\ (last'.addr # linkaddr_node_addr
                /\ addr_is_blocked(table, last'.addr))
             => (last'.ret = NULL /\ last'.log = "dropped" /\ table' = table)
        /\ last'.addr = linkaddr_node_addr
             => (last'.log # "dropped" /\ (Len(table) > 0 => last'.ret # NULL))
      ]_vars

\* a forward from a blocked previous hop was dropped, its timer and
\* timestamp older than the drop
BlockedPrevhopWitness ==
    /\ last.op = "forward"
    /\ last.log = "dropped"
    /\ known(table, last.addr)
    /\ entry(table, last.addr).trust < MAT
    /\ now >= 4
    /\ entry(table, last.addr).last_received < now
    /\ entry(table, last.addr).ctimer < now + NEIGHBOR_TIMEOUT

\* C10: a forward whose previous hop has an entry n that is not blocked sets
\* n.trust to n.trust * 99 / 100 (truncated) when it comes less than 5 s
\* after n.last_received and n.trust > 49, and leaves n.trust alone
\* otherwise; either way n.last_received becomes the current time and n's
\* timer is set to expire 10 s from now.
RapidForwardPenalty ==
    [][(last'.op = "forward" /\ known(table, last'.addr)
            /\ ~addr_is_blocked(table, last'.addr))
        => LET n  == entry(table, last'.addr)
               n1 == entry(table', last'.addr)
           IN  /\ known(table', last'.addr)
               /\ n1.trust = IF now - n.last_received < 5 /\ n.trust > 49
                             THEN (n.trust * 99) \div 100
                             ELSE n.trust
               /\ n1.last_received = now
               /\ n1.ctimer = now + 10
      ]_vars

\* a neighbor found at time 0 with trust 100 has just forwarded less than
\* 5 s later and has trust 99
RapidForwardWitness ==
    /\ last.op = "forward"
    /\ known(table, last.addr)
    /\ now = 4
    /\ entry(table, last.addr).trust = 99
    /\ entry(table, last.addr).last_received = now
    /\ entry(table, last.addr).ctimer = now + NEIGHBOR_TIMEOUT

\* a neighbor found at time 0 has just forwarded 5 s later and kept trust 100
SlowForwardWitness ==
    /\ last.op = "forward"
    /\ known(table, last.addr)
    /\ now = 5
    /\ entry(table, last.addr).trust = 100
    /\ entry(table, last.addr).last_received = now

-----------------------------------------------------------------------------
(* Properties of the merge *)

\* the records of a payload before the first one with trust 0
RECURSIVE MeaningfulPrefix(_)
MeaningfulPrefix(pkt) ==
    IF pkt = <<>> THEN <<>>
    ELSE IF Head(pkt).trust = 0 THEN <<>>
    ELSE <<Head(pkt)>> \o MeaningfulPrefix(Tail(pkt))

\* half of x as C computes x / 2
Half(x) == IF x >= 0 THEN x \div 2 ELSE -((-x) \div 2)

\* the trust an entry of address a and trust tr ends with once the records
\* recs have been applied to it in order
RECURSIVE RefTrust(_, _, _)
RefTrust(tr, a, recs) ==
    IF recs = <<>> THEN tr
    ELSE RefTrust(IF Head(recs).addr = a /\ Head(recs).trust # tr
                  THEN Half(tr + Head(recs).trust)
                  ELSE tr,
                  a, Tail(recs))

\* the table update_table is called on by a broadcast from `from`
MergeInput(t, from, clk) == IF known(t, from) THEN t ELSE insert(t, from, clk)

\* C7: the merge of a vector equals the reference: the records before the
\* first one with trust 0 are applied in order, each averaging (C integer
\* division) the trust of every entry that is not the sink, has the record's
\* address and another trust; nothing else of such an entry changes.
MergeIsReference ==
    [][(last'.op = "broadcast_recv" /\ last'.log = "merged")
        => LET pre == MergeInput(table, last'.addr, now)
           IN  /\ Len(table') = Len(pre)
               /\ \A k \in 1..Len(pre) :
                     pre[k].addr # sink_addr =>
                        table'[k] =
                          [pre[k] EXCEPT !.trust =
                             RefTrust(pre[k].trust, pre[k].addr,
                                      MeaningfulPrefix(last'.pkt))]
      ]_vars

\* a vector naming <<3, 0>> twice with trust 20 took its entry from 100 to
\* 60 and then to 40
MergeWitness ==
    /\ last.op = "broadcast_recv"
    /\ last.log = "merged"
    /\ last.pkt = <<Rec(<<3, 0>>, 20), Rec(<<3, 0>>, 20)>>
    /\ known(table, <<3, 0>>)
    /\ entry(table, <<3, 0>>).trust = 40

\* a record after a record with trust 0 left the entry it names alone
SentinelWitness ==
    /\ last.op = "broadcast_recv"
    /\ last.log = "merged"
    /\ last.pkt = <<Rec(<<4, 0>>, 0), Rec(<<3, 0>>, 20)>>
    /\ known(table, <<3, 0>>)
    /\ entry(table, <<3, 0>>).trust = 100

\* C8: a merged vector equal to the table's own gossip vector changes the
\* trust of no entry that is not the sink.
MergeStable ==
    [][(last'.op = "broadcast_recv" /\ last'.pkt = snapshot(table))
        => \A k \in 1..Len(table) :
              table[k].addr # sink_addr => table'[k].trust = table[k].trust
      ]_vars

\* the node's own vector was merged into a table of two neighbors of
\* different non-zero trust
MergeStableWitness ==
    /\ last.op = "broadcast_recv"
    /\ last.log = "merged"
    /\ last.pkt = snapshot(table)
    /\ \E j, k \in 1..Len(table) :
          /\ sink_addr \notin {table[j].addr, table[k].addr}
          /\ table[j].trust # 0
          /\ table[k].trust # 0
          /\ table[j].trust # table[k].trust

-----------------------------------------------------------------------------
(* Properties of two nodes gossiping *)

\* every address in both tables has the same trust in both
Agree ==
    \A j \in 1..Len(table), k \in 1..Len(tableB) :
        table[j].addr = tableB[k].addr => table[j].trust = tableB[k].trust

\* C9: two nodes that hold each other as neighbors that are not blocked
\* agree on the trust of every common neighbor after 7 rounds of gossip,
\* whatever trust in [1,100] each started with.
MergeConverges == rounds >= ConvRounds => Agree

\* three rounds have gone by and the two nodes still disagree
MergeConvergesWitness ==
    /\ rounds = 3
    /\ ~Agree
    /\ ~addr_is_blocked(table, peer_addr)
    /\ ~addr_is_blocked(tableB, linkaddr_node_addr)

\* the seventh round is over and both nodes hold the common neighbor at a
\* trust between the extremes
ConvergedWitness ==
    /\ rounds = ConvRounds
    /\ Agree
    /\ entry(table, common_addr).trust = 65
    /\ entry(table, sink_addr).trust = FULL_TRUST

-----------------------------------------------------------------------------
(* Properties of the node with a full pool *)

\* C4: whenever broadcast_recv merges a vector, the sender has an entry
\* whose trust is at least MAT at that moment.
MergeOnlyFromTrusted ==
    (last.op = "broadcast_recv" /\ last.log = "merged") => last.peer >= MAT

-----------------------------------------------------------------------------
(* Frame properties of the handlers *)

\* C11: a forward never increases the trust of any entry and never changes
\* the trust, timestamp or timer of an entry whose address is not prevhop;
\* it adds and removes no entry.
ForwardFrame ==
    [][last'.op = "forward" =>
        /\ Len(table') = Len(table)
        /\ \A k \in 1..Len(table) :
              /\ table'[k].addr = table[k].addr
              /\ table'[k].trust <= table[k].trust
              /\ table[k].addr # last'.addr => table'[k] = table[k]
      ]_vars

\* a forward 4 s after discovery has penalised its previous hop while another
\* neighbor, heard at time 0 too, kept its trust, timestamp and timer
ForwardFrameWitness ==
    /\ last.op = "forward"
    /\ now = 4
    /\ known(table, last.addr)
    /\ entry(table, last.addr).trust = 99
    /\ \E k \in 1..Len(table) :
          /\ table[k].addr # last.addr
          /\ table[k].trust = FULL_TRUST
          /\ table[k].last_received = 0
          /\ table[k].ctimer = NEIGHBOR_TIMEOUT

-----------------------------------------------------------------------------
(* Properties of the table's membership *)

\* the addresses of the entries of t
addresses(t) == {t[k].addr : k \in 1..Len(t)}

\* the addresses named by the records of a payload before the first one with
\* trust 0
named(pkt) ==
    {MeaningfulPrefix(pkt)[i].addr : i \in 1..Len(MeaningfulPrefix(pkt))}

\* C13 as stated: an address enters the table only as the sender of a
\* received broadcast that was not in the table before, and when the
\* handler returns the new entry has trust 100 and last_received equal to
\* the current time.
EntersOnlyAsSender ==
    [][\A a \in addresses(table') \ addresses(table) :
          /\ last'.op = "broadcast_recv"
          /\ last'.addr = a
          /\ entry(table', a).trust = FULL_TRUST
          /\ entry(table', a).last_received = now
      ]_vars

\* C13: an address enters the table only as the sender of a received
\* broadcast that was not in the table before; the new entry is the only one
\* added, its last_received is the current time, and its trust is 100
\* whenever no record of the received vector before the first zero-trust
\* record names the sender itself.  Addresses that only appear inside the
\* vector are never inserted.
EntersOnlyAsSenderAmended ==
    [][/\ \A a \in addresses(table') \ addresses(table) :
             /\ last'.op = "broadcast_recv"
             /\ last'.addr = a
             /\ entry(table', a).last_received = now
             /\ a \notin named(last'.pkt)
                  => entry(table', a).trust = FULL_TRUST
       /\ last'.op = "broadcast_recv" =>
             /\ addresses(table') \subseteq addresses(table) \cup {last'.addr}
             /\ Len(table') <= Len(table) + 1
      ]_vars

\* the first broadcast heard, 4 s or more after the start, came from <<4, 0>>
\* and named <<3, 0>>, which has no entry: the table holds <<4, 0>> alone, at
\* trust 100 and stamped with the time of the broadcast
EntersOnlyAsSenderWitness ==
    /\ last.op = "broadcast_recv"
    /\ last.addr = <<4, 0>>
    /\ last.pkt = <<Rec(<<3, 0>>, 20), Rec(<<3, 0>>, 20)>>
    /\ nev = 1
    /\ now >= 4
    /\ addresses(table) = {<<4, 0>>}
    /\ Len(table) = 1
    /\ table[1].trust = FULL_TRUST
    /\ table[1].last_received = now

\* C14: no two entries of the table have the same address.
UniqueAddr ==
    \A j, k \in 1..Len(table) : table[j].addr = table[k].addr => j = k

\* a broadcast from a neighbor discovered earlier was merged and the table
\* still holds that neighbor once, among others
UniqueAddrWitness ==
    /\ last.op = "broadcast_recv"
    /\ last.log = "merged"
    /\ known(table, last.addr)
    /\ entry(table, last.addr).last_received < now
    /\ Len(table) >= 2
    /\ Cardinality({k \in 1..Len(table) : table[k].addr = last.addr}) = 1

\* C15: the table never holds more than 16 entries; a broadcast from an
\* unknown address received while 16 entries are held adds no entry,
\* replaces none, and the handler goes on to the merge as for any other
\* broadcast, reporting nothing.
PoolBound ==
    [][/\ Len(table') <= 16
       /\ (last'.op = "broadcast_recv" /\ Len(table) = 16
              /\ ~known(table, last'.addr))
            => /\ Len(table') = 16
               /\ \A k \in 1..16 : table'[k].addr = table[k].addr
               /\ last'.log = "merged"
      ]_vars

\* a broadcast from a sender with no entry has just been handled by a table
\* of 16 entries, and the sender still has none
PoolBoundWitness ==
    /\ last.op = "broadcast_recv"
    /\ Len(table) = MAX_NEIGHBORS
    /\ ~known(table, last.addr)
    /\ \A k \in 1..(MAX_NEIGHBORS - 1) : table[k].addr = crowd_addr(k)

-----------------------------------------------------------------------------
(* Properties of the expired state *)

\* the timer of entry k of t has fired while its trust was below MAT: only
\* remove_neighbor leaves a timer not pending, every entry is born with its
\* timer set, and remove_neighbor sets the timer of an entry that is not the
\* sink again unless its trust is below MAT
Expired(t, k) == t[k].addr # sink_addr /\ t[k].ctimer = IDLE

\* C17: once the expiry of an entry that is not the sink has fired while its
\* trust was below MAT, the entry never has trust >= MAT again.
ExpiredIsTerminal ==
    [][\A k \in 1..Len(table) :
          Expired(table, k) => table'[k].trust < MAT]_vars

-----------------------------------------------------------------------------
(* Properties of the gossip vector *)

\* C18: the vector a gossip tick sends has 16 records; record i holds the
\* address and the trust of the i-th entry of the table as it is when the
\* tick fires, and every record past the table's length is all zero.
GossipIsSnapshot ==
    last.op = "gossip" =>
        /\ Len(last.out) = 16
        /\ \A i \in 1..16 :
              IF i <= Len(table)
              THEN /\ last.out[i].addr = table[i].addr
                   /\ last.out[i].trust = table[i].trust
              ELSE last.out[i] = [addr |-> <<0, 0>>, trust |-> 0]

\* a gossip tick has sent the vector of a table of two entries of different
\* trust, discovered at different times
GossipIsSnapshotWitness ==
    /\ last.op = "gossip"
    /\ nev = 3
    /\ Len(table) = 2
    /\ table[1].trust # table[2].trust
    /\ table[2].last_received > table[1].last_received
    /\ last.out[2].trust = table[2].trust

-----------------------------------------------------------------------------
(* Properties of the rapid-forward run *)

\* C19: after f forwards in a hurry from a neighbor discovered at trust 100
\* its trust is 100 - f up to f = 51 and 49 from then on: the neighbor is
\* blocked after 51 forwards and after no fewer, every forward after the
\* 51st is dropped, and the trust never goes below 49.
RapidBlocking ==
    nev >= 1 =>
        LET f == nev - 1
        IN  /\ Len(table) = 1
            /\ table[1].addr = rapid_addr
            /\ table[1].trust = IF f <= 51 THEN 100 - f ELSE 49
            /\ addr_is_blocked(table, rapid_addr) <=> f >= 51
            /\ (last.op = "forward" /\ f > 51)
                 => (last.log = "dropped" /\ last.ret = NULL)
            /\ (last.op = "forward" /\ f <= 51) => last.log = "forwarding"

\* the 52nd forward in a hurry has been dropped and the trust is 49
RapidBlockingWitness ==
    /\ nev = 53
    /\ last.op = "forward"
    /\ last.log = "dropped"
    /\ table[1].trust = 49
    /\ now - table[1].last_received < MINIMUM_DELAY

-----------------------------------------------------------------------------
(* Properties of the node among neighbors with in-range vectors *)

\* C20: when every received vector carries trust values within [0,100]
\* only, every entry's trust is within [1,100], and no record of a gossip
\* vector that stands for an entry has trust 0.
TrustPositive ==
    /\ \A k \in 1..Len(table) :
          1 <= table[k].trust /\ table[k].trust <= 100
    /\ last.op = "gossip" =>
          \A i \in 1..Len(table) : last.out[i].trust # 0

\* a gossip tick has sent a vector whose first record has trust 1, the
\* lowest a merge of in-range vectors can leave, followed by the record of
\* another entry
TrustPositiveWitness ==
    /\ last.op = "gossip"
    /\ Len(table) = 2
    /\ table[1].trust = 1
    /\ last.out[1].trust = 1
    /\ last.out[2].trust >= MAT

====
